---- MODULE Spec2Model ----
(***************************************************************************)
(* SimpleApi/app/main.py: a FastAPI application with two endpoints,        *)
(* GET /ping and POST /add.  The model follows one request through the     *)
(* application: it is received, routed, its body is validated against      *)
(* AddRequest, the endpoint function is called, and the response is sent.  *)
(* Sync endpoints run on worker threads, so several requests can be at     *)
(* different steps at once.                                                *)
(*                                                                         *)
(* What main.py leaves to FastAPI, pydantic and the interpreter is part of *)
(* the program's behaviour and is modelled with it: the routes FastAPI()   *)
(* registers, the coercions of an `int` field, Python's unbounded int and  *)
(* the interpreter's limit on int <-> str conversion.  Where the installed *)
(* version decides (pydantic 1 or 2, an interpreter with or without the    *)
(* limit) every outcome is kept.                                           *)
(*                                                                         *)
(* Spec     one worker, every method, path and body of Requests            *)
(* SpecConc NumWorkers workers, the requests of ConcRequests               *)
(* SpecBig  one worker, POST /add with the integers of BigInts             *)
(***************************************************************************)
EXTENDS Integers, Sequences, FiniteSets, TLC

\* ------------------------------------------------------------- bounds
\* integers carried by request bodies range over -MaxInt..MaxInt
MaxInt == 2
\* requests received in one behaviour
MaxRequests == 3
\* worker threads handling requests at the same time (SpecConc)
NumWorkers == 2

VARIABLES
    pydantic,   \* major version of the installed pydantic (1 or 2): fixed per deployment
    max_str_digits, \* the interpreter's limit on int <-> str conversion (0: none)
    serving,    \* the server process is up and accepts requests
    conn,       \* per worker: the request being handled and how far it got
    sent,       \* history: number of responses sent so far
    rejected    \* history: number of 422 responses sent so far

vars == <<pydantic, max_str_digits, serving, conn, sent, rejected>>

\* ------------------------------------------------------------- Python int
\* A Python int is an integer of any size.  It is kept as a sign (-1, 0, 1)
\* and a magnitude in limbs of four decimal digits, least significant first,
\* with no leading zero limb; 0 has no limb.
LimbBase == 10000

PyInt(sign, limbs) == [sign |-> sign, limbs |-> limbs]

PyZero == PyInt(0, <<>>)

RECURSIVE limbs_of(_)
limbs_of(n) == IF n = 0 THEN <<>> ELSE <<n % LimbBase>> \o limbs_of(n \div LimbBase)

\* the Python int of a small integer
PyInt_FromLong(n) ==
    IF n = 0 THEN PyZero
    ELSE IF n > 0 THEN PyInt(1, limbs_of(n)) ELSE PyInt(-1, limbs_of(-n))

limb(s, i) == IF i <= Len(s) THEN s[i] ELSE 0

\* limbs lo..hi of a + b + carry, and the carry out of limb hi
RECURSIVE add_range(_, _, _, _, _)
add_range(a, b, lo, hi, carry) ==
    IF lo = hi
    THEN LET t == limb(a, lo) + limb(b, lo) + carry
         IN  [limbs |-> <<t % LimbBase>>, carry |-> t \div LimbBase]
    ELSE LET mid == (lo + hi) \div 2
             low == add_range(a, b, lo, mid, carry)
             high == add_range(a, b, mid + 1, hi, low.carry)
         IN  [limbs |-> low.limbs \o high.limbs, carry |-> high.carry]

\* |a| + |b|
x_add(a, b) ==
    LET n == IF Len(a) >= Len(b) THEN Len(a) ELSE Len(b)
        r == add_range(a, b, 1, n, 0)
    IN  IF n = 0 THEN <<>>
        ELSE IF r.carry = 0 THEN r.limbs ELSE Append(r.limbs, r.carry)

\* limbs lo..hi of a - b - borrow, and the borrow out of limb hi
RECURSIVE sub_range(_, _, _, _, _)
sub_range(a, b, lo, hi, borrow) ==
    IF lo = hi
    THEN LET t == limb(a, lo) - limb(b, lo) - borrow
         IN  IF t >= 0 THEN [limbs |-> <<t>>, borrow |-> 0]
             ELSE [limbs |-> <<t + LimbBase>>, borrow |-> 1]
    ELSE LET mid == (lo + hi) \div 2
             low == sub_range(a, b, lo, mid, borrow)
             high == sub_range(a, b, mid + 1, hi, low.borrow)
         IN  [limbs |-> low.limbs \o high.limbs, borrow |-> high.borrow]

\* the limbs without leading zeros
long_normalize(s) ==
    IF \A i \in 1..Len(s) : s[i] = 0 THEN <<>>
    ELSE SubSeq(s, 1, CHOOSE i \in 1..Len(s) :
                          s[i] # 0 /\ \A j \in (i + 1)..Len(s) : s[j] = 0)

\* -1, 0, 1 as |a| is less than, equal to, greater than |b|
cmp_abs(a, b) ==
    IF Len(a) # Len(b) THEN (IF Len(a) < Len(b) THEN -1 ELSE 1)
    ELSE IF a = b THEN 0
    ELSE LET top == CHOOSE i \in 1..Len(a) :
                        a[i] # b[i] /\ \A j \in (i + 1)..Len(a) : a[j] = b[j]
         IN  IF a[top] < b[top] THEN -1 ELSE 1

\* |a| - |b|, for |a| > |b|
x_sub(a, b) == long_normalize(sub_range(a, b, 1, Len(a), 0).limbs)

\* a + b of two Python ints
long_add(a, b) ==
    IF a.sign = 0 THEN b
    ELSE IF b.sign = 0 THEN a
    ELSE IF a.sign = b.sign THEN PyInt(a.sign, x_add(a.limbs, b.limbs))
    ELSE IF cmp_abs(a.limbs, b.limbs) = 0 THEN PyZero
    ELSE IF cmp_abs(a.limbs, b.limbs) > 0 THEN PyInt(a.sign, x_sub(a.limbs, b.limbs))
    ELSE PyInt(b.sign, x_sub(b.limbs, a.limbs))

\* the number of decimal digits of a Python int (0 for 0)
ndigits(x) ==
    IF x.sign = 0 THEN 0
    ELSE LET top == x.limbs[Len(x.limbs)]
         IN  4 * (Len(x.limbs) - 1)
               + (IF top < 10 THEN 1 ELSE IF top < 100 THEN 2 ELSE IF top < 1000 THEN 3 ELSE 4)

\* CPython's default for sys.get_int_max_str_digits() since 3.11 (and the
\* 3.7 to 3.10 security releases); earlier interpreters have no limit
DEFAULT_MAX_STR_DIGITS == 4300

\* str(x) and int("...") raise ValueError beyond the limit
exceeds_str_limit(x) == max_str_digits > 0 /\ ndigits(x) > max_str_digits

\* ------------------------------------------------------------- JSON values
\* A JSON value of the request body.  int holds the integer of a number
\* without fraction or exponent; n holds a boolean (1/0) or a float in tenths
\* (15 is 1.5); chars holds the characters of a string.
J(kind, int, n, chars) == [kind |-> kind, int |-> int, n |-> n, chars |-> chars]

\* the key is not in the object
Absent == J("absent", PyZero, 0, <<>>)

JInt(x) == J("int", x, 0, <<>>)

JStr(chars) == J("str", PyZero, 0, chars)

JFloat(tenths) == J("float", PyZero, tenths, <<>>)

JBool(b) == J("bool", PyZero, IF b THEN 1 ELSE 0, <<>>)

JNull == J("null", PyZero, 0, <<>>)

JArray == J("array", PyZero, 0, <<>>)

JObject == J("object", PyZero, 0, <<>>)

StrInputs == { <<"x">>, <<"5">>, <<"-", "1">>, <<"1", "0">>, <<>> }

FloatInputs == { 15, 20, -15 }

JsonValues ==
    {JInt(PyInt_FromLong(n)) : n \in -MaxInt..MaxInt}
        \cup {JStr(c) : c \in StrInputs}
        \cup {JFloat(t) : t \in FloatInputs}
        \cup {JBool(b) : b \in BOOLEAN}
        \cup {JNull, JArray, JObject}

\* A request body: a JSON object with (some of) the keys a and b, JSON of
\* another shape, bytes that are not JSON, or no body at all.
Body(form, a, b) == [form |-> form, a |-> a, b |-> b]

NoBody == Body("none", Absent, Absent)

Bodies ==
    {Body("object", a, b) : a \in JsonValues \cup {Absent}, b \in JsonValues \cup {Absent}}
        \cup {Body("array", Absent, Absent), Body("invalid", Absent, Absent), NoBody}

\* json.loads(body) raises ValueError, not JSONDecodeError, on an integer
\* literal longer than the str limit
json_loads_raises(body) ==
    /\ body.form = "object"
    /\ \E v \in {body.a, body.b} : v.kind = "int" /\ exceeds_str_limit(v.int)

\* ------------------------------------------------------------- AddRequest
Digits == <<"0", "1", "2", "3", "4", "5", "6", "7", "8", "9">>

IsDigit(c) == \E i \in 1..Len(Digits) : Digits[i] = c

DigitVal(c) == (CHOOSE i \in 1..Len(Digits) : Digits[i] = c) - 1

RECURSIVE DigitsVal(_)
DigitsVal(cs) ==
    IF cs = <<>> THEN 0
    ELSE 10 * DigitsVal(SubSeq(cs, 1, Len(cs) - 1)) + DigitVal(cs[Len(cs)])

\* int("..."): an optional sign and at least one decimal digit
str_to_int(cs) ==
    LET signed == cs # <<>> /\ Head(cs) \in {"+", "-"}
        ds == IF signed THEN Tail(cs) ELSE cs
        ok == ds # <<>> /\ \A i \in 1..Len(ds) : IsDigit(ds[i])
    IN  [ok |-> ok,
         val |-> IF ~ok THEN PyZero
                 ELSE IF signed /\ Head(cs) = "-" THEN PyInt_FromLong(-DigitsVal(ds))
                 ELSE PyInt_FromLong(DigitsVal(ds))]

\* int(x) of a float given in tenths: truncation toward zero
trunc(t) == IF t >= 0 THEN t \div 10 ELSE -((-t) \div 10)

\* Validation of one field annotated `int` (pydantic's default, lax, mode).
\* An int is taken as it is; a bool is an int (True is 1); a string is parsed;
\* a float is truncated by pydantic 1 and accepted by pydantic 2 only when it
\* has no fractional part; everything else is an error.
int_validator(v, ver) ==
    CASE v.kind = "int"   -> [ok |-> TRUE, val |-> v.int]
      [] v.kind = "bool"  -> [ok |-> TRUE, val |-> PyInt_FromLong(v.n)]
      [] v.kind = "str"   -> str_to_int(v.chars)
      [] v.kind = "float" ->
            IF ver = 1 THEN [ok |-> TRUE, val |-> PyInt_FromLong(trunc(v.n))]
            ELSE IF v.n % 10 = 0 THEN [ok |-> TRUE, val |-> PyInt_FromLong(trunc(v.n))]
            ELSE [ok |-> FALSE, val |-> PyZero]
      [] OTHER            -> [ok |-> FALSE, val |-> PyZero]

ErrorItem(loc, type) == [loc |-> loc, type |-> type]

\* fields declared with a default (a: int = 0): a missing one is no error
FieldErrors_defaulted(name, v, ver) ==
    IF v # Absent /\ ~int_validator(v, ver).ok
    THEN <<ErrorItem(<<"body", name>>, "int")>>
    ELSE <<>>

\* the error of one field of the model, if any
FieldErrors(name, v, ver) ==
    IF v = Absent THEN <<ErrorItem(<<"body", name>>, "missing")>>
    ELSE IF ~int_validator(v, ver).ok THEN <<ErrorItem(<<"body", name>>, "int")>>
    ELSE <<>>

NoData == [a |-> PyZero, b |-> PyZero]

\* AddRequest built from the request body: the validated model, or the errors
AddRequest(body, ver) ==
    CASE body.form = "invalid" ->
            [errors |-> <<ErrorItem(<<"body">>, "json_invalid")>>, data |-> NoData]
      [] body.form = "none" ->
            [errors |-> <<ErrorItem(<<"body">>, "missing")>>, data |-> NoData]
      [] body.form = "array" ->
            [errors |-> <<ErrorItem(<<"body">>, "dict")>>, data |-> NoData]
      [] OTHER ->
            LET errs == FieldErrors("a", body.a, ver) \o FieldErrors("b", body.b, ver)
            IN  [errors |-> errs,
                 data |-> IF errs # <<>> THEN NoData
                          ELSE [a |-> int_validator(body.a, ver).val,
                                b |-> int_validator(body.b, ver).val]]

\* ------------------------------------------------------------- endpoints
Response(code, content) == [code |-> code, content |-> content]

NoResponse == Response(0, [none |-> TRUE])

\* ping as a health check that reports earlier failures
ping_degraded ==
    IF rejected > 0 THEN Response(503, [status |-> "degraded"])
    ELSE Response(200, [status |-> "ok"])

\* def ping()
ping == Response(200, [status |-> "ok"])

\* JSONResponse(content=...): the constructor renders the content with
\* json.dumps, which raises ValueError on an int beyond the str limit
JSONResponse(ints, content) ==
    IF \E x \in ints : exceeds_str_limit(x) THEN [raised |-> "ValueError"]
    ELSE [raised |-> "", response |-> Response(200, content)]

\* add with the wrong operator: a - b
add_minus(data) ==
    LET result == long_add(data.a, PyInt(-data.b.sign, data.b.limbs))
    IN  Response(200, [a |-> data.a, b |-> data.b, result |-> result])

\* def add(data: AddRequest); an exception it raises is answered by the
\* server-error middleware with a 500
add(data) ==
    LET result == long_add(data.a, data.b)
        r == JSONResponse({data.a, data.b, result},
                          [a |-> data.a, b |-> data.b, result |-> result])
    IN  IF r.raised # "" THEN Response(500, [text |-> "Internal Server Error"])
        ELSE r.response

\* FastAPI's handler of RequestValidationError
request_validation_exception_handler(errors) == Response(422, [detail |-> errors])

\* ------------------------------------------------------------- routing
\* A path is the sequence of its segments: /ping is <<"ping">>, /ping/ is
\* <<"ping", "">> and / is <<"">>.
Root == <<"">>

PingPath == <<"ping">>

AddPath == <<"add">>

Route(path, methods, endpoint) == [path |-> path, methods |-> methods, endpoint |-> endpoint]

\* app = FastAPI() registers the documentation routes (openapi_url, docs_url,
\* swagger_ui_oauth2_redirect_url, redoc_url at their defaults) with
\* add_route, which serves HEAD along with GET; the decorators then append
\* /ping and /add, each with the one method of its decorator.
routes ==
    << Route(<<"openapi.json">>, {"GET", "HEAD"}, "openapi"),
       Route(<<"docs">>, {"GET", "HEAD"}, "swagger_ui_html"),
       Route(<<"docs", "oauth2-redirect">>, {"GET", "HEAD"}, "swagger_ui_redirect"),
       Route(<<"redoc">>, {"GET", "HEAD"}, "redoc_html"),
       Route(PingPath, {"GET"}, "ping"),
       Route(AddPath, {"POST"}, "add") >>

Methods == {"GET", "POST", "HEAD"}

Paths ==
    {routes[i].path : i \in 1..Len(routes)}
        \cup {<<"ping", "">>, <<"add", "">>, <<"nope">>, Root}

\* a route registered for every method
matches_path_only(route, method, path) ==
    IF route.path # path THEN "none" ELSE "full"

\* Route.matches: NONE, PARTIAL (the path only) or FULL
matches(route, method, path) ==
    IF route.path # path THEN "none"
    ELSE IF method \in route.methods THEN "full"
    ELSE "partial"

\* the path with its trailing slash removed, or added
toggle_slash(path) ==
    IF path[Len(path)] = "" THEN SubSeq(path, 1, Len(path) - 1)
    ELSE Append(path, "")

\* Router: the first route that matches fully serves the request; failing
\* that a route that matches the path answers 405; failing that a path that
\* matches with its trailing slash toggled is redirected; else 404.
\* The endpoint names "405", "307", "404" stand for those built-in answers.
Router(method, path) ==
    LET full == {i \in 1..Len(routes) : matches(routes[i], method, path) = "full"}
        partial == {i \in 1..Len(routes) : matches(routes[i], method, path) = "partial"}
        first(S) == CHOOSE i \in S : \A j \in S : i <= j
    IN  IF full # {} THEN routes[first(full)].endpoint
        ELSE IF partial # {} THEN "405"
        ELSE IF path # Root
                /\ \E i \in 1..Len(routes) :
                      matches(routes[i], method, toggle_slash(path)) # "none"
             THEN "307"
        ELSE "404"

\* the answers that involve neither ping nor add
BuiltinResponse(endpoint, path) ==
    CASE endpoint = "405" -> Response(405, [detail |-> "Method Not Allowed"])
      [] endpoint = "404" -> Response(404, [detail |-> "Not Found"])
      [] endpoint = "307" -> Response(307, [location |-> toggle_slash(path)])
      [] OTHER            -> Response(200, [document |-> endpoint])

\* ------------------------------------------------------------- requests
Request(method, path, body) == [method |-> method, path |-> path, body |-> body]

\* every request the model sends: a body goes with POST /add only
Requests ==
    {Request("POST", AddPath, b) : b \in Bodies}
        \cup {Request(m, p, NoBody) : m \in Methods, p \in Paths}

\* the requests of the concurrent runs: each outcome of each endpoint
ConcRequests ==
    { Request("GET", PingPath, NoBody),
      Request("POST", PingPath, NoBody),
      Request("GET", <<"nope">>, NoBody),
      Request("POST", AddPath, Body("object", JInt(PyInt_FromLong(1)), JInt(PyInt_FromLong(2)))),
      Request("POST", AddPath, Body("object", JInt(PyInt_FromLong(-1)), JInt(PyInt_FromLong(1)))),
      Request("POST", AddPath, Body("object", JStr(<<"x">>), JInt(PyInt_FromLong(2)))),
      Request("POST", AddPath, Body("object", JInt(PyInt_FromLong(1)), Absent)) }

\* integers at the edges of the machine widths and of the str limit
BigInts ==
    { PyZero, PyInt_FromLong(1), PyInt_FromLong(-1),
      PyInt(1, <<3647, 4748, 21>>),                    \* 2^31 - 1
      PyInt(-1, <<3648, 4748, 21>>),                   \* -2^31
      PyInt(1, <<7295, 9496, 42>>),                    \* 2^32 - 1
      PyInt(1, <<5807, 5477, 368, 3372, 922>>),        \* 2^63 - 1
      PyInt(-1, <<5808, 5477, 368, 3372, 922>>),       \* -2^63
      PyInt(1, <<1615, 955, 737, 6744, 1844>>),        \* 2^64 - 1
      PyInt(1, [i \in 1..1075 |-> 9999]),              \* 10^4300 - 1
      PyInt(-1, [i \in 1..1075 |-> 9999]),             \* -(10^4300 - 1)
      PyInt(1, [i \in 1..1076 |-> IF i = 1076 THEN 1 ELSE 0]) } \* 10^4300

\* POST /add with two integers of BigInts
BigRequests ==
    {Request("POST", AddPath, Body("object", JInt(a), JInt(b))) : a \in BigInts, b \in BigInts}

\* ------------------------------------------------------------- the server
Idle ==
    [pc |-> "idle", method |-> "", path |-> Root, body |-> NoBody,
     endpoint |-> "", data |-> NoData, ran |-> "none", resp |-> NoResponse]

InFlight == Cardinality({s \in DOMAIN conn : conn[s].pc # "idle"})

\* a worker takes a request off the socket
Receive(s, R) ==
    /\ serving
    /\ conn[s].pc = "idle"
    /\ sent + InFlight < MaxRequests
    /\ \E r \in R :
          conn' = [conn EXCEPT ![s] =
                      [Idle EXCEPT !.pc = "received", !.method = r.method,
                                   !.path = r.path, !.body = r.body]]
    /\ UNCHANGED <<pydantic, max_str_digits, serving, sent, rejected>>

\* add taking the raw body: the endpoint is called without validation
Dispatch_unvalidated(s) ==
    /\ conn[s].pc = "received"
    /\ LET e == Router(conn[s].method, conn[s].path)
       IN  conn' = [conn EXCEPT ![s] =
                IF e \in {"ping", "add"}
                THEN [@ EXCEPT !.pc = "validated", !.endpoint = e]
                ELSE [@ EXCEPT !.pc = "responding", !.endpoint = e,
                               !.resp = BuiltinResponse(e, conn[s].path)]]
    /\ UNCHANGED <<pydantic, max_str_digits, serving, sent, rejected>>

\* the router picks the endpoint, or answers by itself
Dispatch(s) ==
    /\ conn[s].pc = "received"
    /\ LET e == Router(conn[s].method, conn[s].path)
       IN  conn' = [conn EXCEPT ![s] =
                IF e \in {"ping", "add"}
                THEN [@ EXCEPT !.pc = "matched", !.endpoint = e]
                ELSE [@ EXCEPT !.pc = "responding", !.endpoint = e,
                               !.resp = BuiltinResponse(e, conn[s].path)]]
    /\ UNCHANGED <<pydantic, max_str_digits, serving, sent, rejected>>

\* the validated model kept in a module-level variable (the first worker's
\* slot) instead of the request's own
Validate_shared(s) ==
    /\ conn[s].pc = "matched"
    /\ LET v == AddRequest(conn[s].body, pydantic)
       IN  conn' =
                IF conn[s].endpoint = "ping" THEN [conn EXCEPT ![s].pc = "validated"]
                ELSE IF v.errors = <<>>
                     THEN [conn EXCEPT ![s].pc = "validated", ![1].data = v.data]
                     ELSE [conn EXCEPT ![s].pc = "responding",
                              ![s].resp = request_validation_exception_handler(v.errors)]
    /\ UNCHANGED <<pydantic, max_str_digits, serving, sent, rejected>>

\* a validation error that nobody catches and that takes the process down
Validate_fatal(s) ==
    /\ conn[s].pc = "matched"
    /\ LET v == AddRequest(conn[s].body, pydantic)
       IN  IF conn[s].endpoint = "add" /\ v.errors # <<>>
           THEN serving' = FALSE /\ conn' = [conn EXCEPT ![s] = Idle]
           ELSE serving' = serving
                /\ conn' = [conn EXCEPT ![s] = [@ EXCEPT !.pc = "validated", !.data = v.data]]
    /\ UNCHANGED <<pydantic, max_str_digits, sent, rejected>>

\* the endpoint's parameters are built from the request: none for ping, the
\* AddRequest model for add.  A body json.loads cannot read for another
\* reason than its syntax ends the request with a 400, errors of the model
\* end it with a 422.
Validate(s) ==
    /\ conn[s].pc = "matched"
    /\ LET v == AddRequest(conn[s].body, pydantic)
       IN  conn' = [conn EXCEPT ![s] =
                IF conn[s].endpoint = "ping" THEN [@ EXCEPT !.pc = "validated"]
                ELSE IF json_loads_raises(conn[s].body)
                     THEN [@ EXCEPT !.pc = "responding",
                              !.resp = Response(400, [detail |-> "There was an error parsing the body"])]
                ELSE IF v.errors = <<>>
                     THEN [@ EXCEPT !.pc = "validated", !.data = v.data]
                     ELSE [@ EXCEPT !.pc = "responding",
                              !.resp = request_validation_exception_handler(v.errors)]]
    /\ UNCHANGED <<pydantic, max_str_digits, serving, sent, rejected>>

\* the endpoint function runs and its return value becomes the response
Call(s) ==
    /\ conn[s].pc = "validated"
    /\ conn' = [conn EXCEPT ![s] =
                  [@ EXCEPT !.pc = "responding", !.ran = conn[s].endpoint,
                            !.resp = IF conn[s].endpoint = "ping" THEN ping
                                     ELSE add(conn[s].data)]]
    /\ UNCHANGED <<pydantic, max_str_digits, serving, sent, rejected>>

\* the response goes out and every per-request object is dropped
Send(s) ==
    /\ conn[s].pc = "responding"
    /\ conn' = [conn EXCEPT ![s] = Idle]
    /\ sent' = sent + 1
    /\ rejected' = IF conn[s].resp.code = 422 THEN rejected + 1 ELSE rejected
    /\ UNCHANGED <<pydantic, max_str_digits, serving>>

InitCommon ==
    /\ pydantic \in {1, 2}
    /\ max_str_digits \in {0, DEFAULT_MAX_STR_DIGITS}
    /\ serving = TRUE
    /\ sent = 0
    /\ rejected = 0

\* one request at a time, every request of Requests
Init ==
    /\ InitCommon
    /\ conn = [s \in 1..1 |-> Idle]

Next ==
    \/ \E s \in 1..1 : Receive(s, Requests)
    \/ \E s \in 1..1 : Dispatch(s)
    \/ \E s \in 1..1 : Validate(s)
    \/ \E s \in 1..1 : Call(s)
    \/ \E s \in 1..1 : Send(s)

Spec == Init /\ [][Next]_vars

\* NumWorkers requests at a time, the requests of ConcRequests
InitConc ==
    /\ InitCommon
    /\ conn = [s \in 1..NumWorkers |-> Idle]

NextConc ==
    \/ \E s \in 1..NumWorkers : Receive(s, ConcRequests)
    \/ \E s \in 1..NumWorkers : Dispatch(s)
    \/ \E s \in 1..NumWorkers : Validate(s)
    \/ \E s \in 1..NumWorkers : Call(s)
    \/ \E s \in 1..NumWorkers : Send(s)

SpecConc == InitConc /\ [][NextConc]_vars

\* one request at a time, POST /add with integers of BigInts
NextBig ==
    \/ \E s \in 1..1 : Receive(s, BigRequests)
    \/ \E s \in 1..1 : Dispatch(s)
    \/ \E s \in 1..1 : Validate(s)
    \/ \E s \in 1..1 : Call(s)
    \/ \E s \in 1..1 : Send(s)

SpecBig == Init /\ [][NextBig]_vars

\* ------------------------------------------------------------- properties
Responding(s) == conn[s].pc = "responding"

IsPing(s) == conn[s].method = "GET" /\ conn[s].path = PingPath

IsAdd(s) == conn[s].method = "POST" /\ conn[s].path = AddPath

\* the body is a JSON object whose a and b are both JSON integers
IntegerBody(s) ==
    /\ conn[s].body.form = "object"
    /\ conn[s].body.a.kind = "int"
    /\ conn[s].body.b.kind = "int"

\* the value of a Python int small enough for TLC's integers
RECURSIVE limbs_value(_)
limbs_value(ls) == IF ls = <<>> THEN 0 ELSE ls[1] + LimbBase * limbs_value(Tail(ls))

PyInt_AsLong(x) == x.sign * limbs_value(x.limbs)

\* the error body names the field
References(detail, name) == \E i \in 1..Len(detail) : detail[i].loc = <<"body", name>>

NotAnInteger(v) == v.kind \notin {"int", "absent"}

\* C2: POST /add with a or b present but not a JSON integer (a string such
\* as "x" or "5", a float, a boolean, null, an array, an object) gets a 422
\* whose body references the offending field, and no 200.
C2_NonIntegerRejected ==
    \A s \in DOMAIN conn :
        Responding(s) /\ IsAdd(s) /\ conn[s].body.form = "object"
          /\ (NotAnInteger(conn[s].body.a) \/ NotAnInteger(conn[s].body.b)) =>
            /\ conn[s].resp.code = 422
            /\ NotAnInteger(conn[s].body.a) => References(conn[s].resp.content.detail, "a")
            /\ NotAnInteger(conn[s].body.b) => References(conn[s].resp.content.detail, "b")

\* C3: POST /add with a JSON object that lacks a, b or both gets a 422 whose
\* body references each missing field; the handler does not run and no 200
\* is produced.
C3_MissingFieldRejected ==
    \A s \in DOMAIN conn :
        Responding(s) /\ IsAdd(s) /\ conn[s].body.form = "object"
          /\ (conn[s].body.a = Absent \/ conn[s].body.b = Absent) =>
            /\ conn[s].resp.code = 422
            /\ conn[s].ran = "none"
            /\ conn[s].body.a = Absent => References(conn[s].resp.content.detail, "a")
            /\ conn[s].body.b = Absent => References(conn[s].resp.content.detail, "b")

\* the body {} is answered with a 422 naming both a and b
C3_Witness ==
    \E s \in DOMAIN conn :
        /\ Responding(s) /\ IsAdd(s) /\ conn[s].body.form = "object"
        /\ conn[s].body.a = Absent /\ conn[s].body.b = Absent
        /\ conn[s].resp.code = 422
        /\ Len(conn[s].resp.content.detail) = 2

\* C4: GET /ping gets status 200 and {"status": "ok"}, whatever was handled
\* before it and whatever is being handled at the same time.
C4_PingAlwaysOk ==
    \A s \in DOMAIN conn :
        Responding(s) /\ IsPing(s) => conn[s].resp = Response(200, [status |-> "ok"])

\* a ping is answered after a rejected request, while another worker is in
\* the middle of a POST /add
C4_Witness ==
    \E s, t \in DOMAIN conn :
        /\ s # t
        /\ Responding(s) /\ IsPing(s) /\ conn[s].resp.code = 200
        /\ rejected > 0
        /\ IsAdd(t) /\ conn[t].pc \in {"matched", "validated"}

\* the response to one request handled on its own, from the request alone
handle_alone(method, path, body) ==
    LET e == Router(method, path)
        v == AddRequest(body, pydantic)
    IN  IF e = "ping" THEN ping
        ELSE IF e # "add" THEN BuiltinResponse(e, path)
        ELSE IF json_loads_raises(body)
             THEN Response(400, [detail |-> "There was an error parsing the body"])
        ELSE IF v.errors # <<>> THEN request_validation_exception_handler(v.errors)
        ELSE add(v.data)

\* C5: handling is stateless: under every interleaving and after every
\* history each request gets the response it gets when handled alone.
C5_Stateless ==
    \A s \in DOMAIN conn :
        Responding(s) =>
            conn[s].resp = handle_alone(conn[s].method, conn[s].path, conn[s].body)

\* two POST /add with different bodies have both been answered, after other
\* requests were served
C5_Witness ==
    \E s, t \in DOMAIN conn :
        /\ s # t /\ sent > 0
        /\ Responding(s) /\ IsAdd(s) /\ conn[s].resp.code = 200
        /\ Responding(t) /\ IsAdd(t) /\ conn[t].resp.code = 200
        /\ conn[s].resp.content.result # conn[t].resp.content.result

\* C6: no error is fatal: the service stays up and valid requests get their
\* 200 after any number of rejected ones.
C6_NoErrorIsFatal ==
    /\ serving
    /\ \A s \in DOMAIN conn :
          Responding(s) /\ rejected > 0 =>
              /\ IsPing(s) => conn[s].resp.code = 200
              /\ IsAdd(s) /\ IntegerBody(s) =>
                    /\ conn[s].resp.code = 200
                    /\ conn[s].ran = "add"

\* a valid POST /add is answered 200 after two requests were rejected
C6_Witness ==
    \E s \in DOMAIN conn :
        /\ rejected >= 2 /\ serving
        /\ Responding(s) /\ IsAdd(s) /\ IntegerBody(s)
        /\ conn[s].resp.code = 200

\* C7: the body of add is entered only for a request whose body passed
\* AddRequest validation: never with a missing or malformed field.
C7_ValidationBeforeHandler ==
    \A s \in DOMAIN conn :
        conn[s].ran = "add" \/ (conn[s].pc = "validated" /\ conn[s].endpoint = "add") =>
            /\ conn[s].body.form = "object"
            /\ conn[s].body.a # Absent /\ int_validator(conn[s].body.a, pydantic).ok
            /\ conn[s].body.b # Absent /\ int_validator(conn[s].body.b, pydantic).ok

\* a request with a malformed field was answered without add having run
C7_Witness ==
    \E s \in DOMAIN conn :
        /\ Responding(s) /\ IsAdd(s) /\ conn[s].body.form = "object"
        /\ conn[s].body.a.kind = "null"
        /\ conn[s].ran = "none"
        /\ conn[s].resp.code = 422

\* C8: POST /add ends in a 200 carrying a, b and result = a + b, or in a
\* client-error response for a validation failure; nothing else is reachable.
C8_TwoOutcomes ==
    \A s \in DOMAIN conn :
        Responding(s) /\ IsAdd(s) =>
            \/ /\ conn[s].resp.code = 200
               /\ conn[s].resp.content.result
                    = long_add(conn[s].resp.content.a, conn[s].resp.content.b)
            \/ /\ conn[s].resp.code \in 400..499
               /\ conn[s].ran = "none"

\* the sum of limbs lo..hi
RECURSIVE limb_sum(_, _, _)
limb_sum(ls, lo, hi) ==
    IF lo > hi THEN 0
    ELSE IF lo = hi THEN ls[lo]
    ELSE limb_sum(ls, lo, (lo + hi) \div 2) + limb_sum(ls, (lo + hi) \div 2 + 1, hi)

\* x modulo LimbBase - 1 (casting out 9999s) and modulo LimbBase
Residues(x) ==
    <<(x.sign * limb_sum(x.limbs, 1, Len(x.limbs))) % (LimbBase - 1),
      (x.sign * limb(x.limbs, 1)) % LimbBase>>

\* x < y
py_less(x, y) ==
    IF x.sign # y.sign THEN x.sign < y.sign
    ELSE IF x.sign = 0 THEN FALSE
    ELSE IF x.sign = 1 THEN cmp_abs(x.limbs, y.limbs) < 0
    ELSE cmp_abs(x.limbs, y.limbs) > 0

\* r is a + b as far as the residues tell, and r has not wrapped around or
\* saturated: the sum of two positive integers exceeds both, the sum of two
\* negative integers is below both
ExactSum(r, a, b) ==
    /\ Residues(r)[1] = (Residues(a)[1] + Residues(b)[1]) % (LimbBase - 1)
    /\ Residues(r)[2] = (Residues(a)[2] + Residues(b)[2]) % LimbBase
    /\ a.sign = 1 /\ b.sign = 1 => py_less(a, r) /\ py_less(b, r)
    /\ a.sign = -1 /\ b.sign = -1 => py_less(r, a) /\ py_less(r, b)
    /\ a.sign = 0 => r = b
    /\ b.sign = 0 => r = a

\* C9: the result of POST /add is the exact sum of a and b for integers of
\* any magnitude: it never wraps around modulo 2^32 or 2^64 and never
\* saturates.
C9_ExactSumAnyMagnitude ==
    \A s \in DOMAIN conn :
        Responding(s) /\ IsAdd(s) /\ IntegerBody(s) /\ conn[s].ran = "add" =>
            /\ conn[s].resp.code = 200
            /\ ExactSum(conn[s].resp.content.result, conn[s].body.a.int, conn[s].body.b.int)

\* What does hold of the magnitudes: a sum that json.dumps can write is
\* exact, also past 2^31, 2^32, 2^63 and 2^64.
ExactSumWithinStrLimit ==
    \A s \in DOMAIN conn :
        Responding(s) /\ IsAdd(s) /\ IntegerBody(s) /\ conn[s].ran = "add"
          /\ ~exceeds_str_limit(long_add(conn[s].body.a.int, conn[s].body.b.int)) =>
            /\ conn[s].resp.code = 200
            /\ conn[s].resp.content.a = conn[s].body.a.int
            /\ conn[s].resp.content.b = conn[s].body.b.int
            /\ ExactSum(conn[s].resp.content.result, conn[s].body.a.int, conn[s].body.b.int)

\* the paths of the documentation routes
DocPaths == { <<"openapi.json">>, <<"docs">>, <<"docs", "oauth2-redirect">>, <<"redoc">> }

IsDoc(s) == conn[s].method \in {"GET", "HEAD"} /\ conn[s].path \in DocPaths

\* the body passes AddRequest validation
ValidBody(s) ==
    /\ conn[s].body.form = "object"
    /\ conn[s].body.a # Absent /\ int_validator(conn[s].body.a, pydantic).ok
    /\ conn[s].body.b # Absent /\ int_validator(conn[s].body.b, pydantic).ok

\* ping runs exactly for GET /ping, add exactly for POST /add with a valid body
HandlersExact(s) ==
    /\ conn[s].ran = "ping" <=> IsPing(s)
    /\ conn[s].ran = "add" <=> IsAdd(s) /\ ValidBody(s)

\* C10 as stated: dispatch is exact, and every method and path other than
\* GET /ping and POST /add runs neither handler and gets a non-200 response.
C10_DispatchExact ==
    \A s \in DOMAIN conn :
        Responding(s) =>
            /\ HandlersExact(s)
            /\ ~IsPing(s) /\ ~IsAdd(s) => conn[s].ran = "none" /\ conn[s].resp.code # 200

\* C10 amended: dispatch is exact, and every other method and path runs
\* neither handler; it gets a non-200 response unless it is GET or HEAD of a
\* documentation route of FastAPI(), which gets a 200.
C10_DispatchExactButDocs ==
    \A s \in DOMAIN conn :
        Responding(s) =>
            /\ HandlersExact(s)
            /\ ~IsPing(s) /\ ~IsAdd(s) =>
                  /\ conn[s].ran = "none"
                  /\ conn[s].resp.code = 200 <=> IsDoc(s)

\* POST /ping was answered 405 without ping having run
C10_Witness ==
    \E s \in DOMAIN conn :
        /\ Responding(s)
        /\ conn[s].method = "POST" /\ conn[s].path = PingPath
        /\ conn[s].ran = "none"
        /\ conn[s].resp.code = 405

====
